---- MODULE Spec2Model ----
(***************************************************************************)
(* AdaptiveResourcePool<T> (src/adaptive_resource_pool.hpp) as a state     *)
(* machine.  The slot table is the three parallel vectors resources_,      *)
(* busy_ and released_; every public operation runs under mutex_.  The     *)
(* four policy callbacks are opaque std::function objects supplied by the  *)
(* caller: params_ records which of them are configured (non-empty), and   *)
(* what a configured callback answers is an input of the call that invokes *)
(* it.  A resource handle is an address, and NULL is nullptr.              *)
(***************************************************************************)
EXTENDS Integers, Sequences, FiniteSets, TLC

\* ------------------------------------------------------------------ bounds
\* Largest number of resources the initializer produces.
MaxN == 3
\* Number of client threads.
NumThreads == 2
\* Addresses the allocator can hand out beyond the MaxN initial ones.
ExtraAddr == 1

\* ----------------------------------------------------------------- handles
NULL == 0
Addr == 1..(MaxN + ExtraAddr)
\* The address of an object owned by some other pool.
Foreign == MaxN + ExtraAddr + 1
Handles == Addr \cup {NULL, Foreign}

VARIABLES
    params_,     \* which callbacks are configured (non-empty std::function)
    resources_,  \* slot -> owned resource address, NULL when absent
    busy_,       \* slot -> busy flag
    released_,   \* slot -> released flag
    mutex_,      \* 0 when free, else the thread owning the lock
    alive,       \* FALSE once the destructor has run
    pc,          \* thread -> "ready", or the operation it has called
    holds,       \* thread -> handles acquire returned to it, not yet released by it
    handed,      \* slot -> release_func was called on it since it last got a resource
    last         \* observation of the most recently completed call

vars == <<params_, resources_, busy_, released_, mutex_, alive, pc, holds, handed, last>>

Threads == 1..NumThreads

Slots(p) == 1..Len(p.resources)

Pool == [resources |-> resources_, busy |-> busy_, released |-> released_]

\* One callback invocation: f the callback, a its argument, r its result.
Call(f, a, r) == [f |-> f, a |-> a, r |-> r]

B2N(b) == IF b THEN 1 ELSE 0

\* --------------------------------------------------------------- queries
\* activeCount(): std::count(released_, false).
activeCount(p) == Cardinality({i \in Slots(p) : ~p.released[i]})

IsIdle(p, i) == ~p.busy[i] /\ ~p.released[i]

\* The body of idleCount(): slots with !busy_[i] && !released_[i].
idleCountOf(p) == Cardinality({i \in Slots(p) : IsIdle(p, i)})

\* ----------------------------------------------------------- maybeRecover
\* RecoverLoop without busy_[i].store(false) on a restored slot.
RECURSIVE RecoverLoopNoStore(_, _, _, _)
RecoverLoopNoStore(p, i, rf, calls) ==
    IF i > Len(p.resources) THEN [pool |-> p, calls |-> calls, threw |-> FALSE]
    ELSE IF ~p.released[i] THEN RecoverLoopNoStore(p, i + 1, rf, calls)
    ELSE IF ~params_.restore_func
         THEN [pool |-> p, calls |-> Append(calls, Call("restore_func", i, NULL)),
               threw |-> TRUE]
    ELSE IF rf[i] # NULL
         THEN RecoverLoopNoStore([resources |-> [p.resources EXCEPT ![i] = rf[i]],
                                  busy      |-> p.busy,
                                  released  |-> [p.released EXCEPT ![i] = FALSE]],
                                 i + 1, rf,
                                 calls \o <<Call("restore_func", i, rf[i]),
                                            Call("log_restored", i, 0)>>)
    ELSE RecoverLoopNoStore(p, i + 1, rf,
                            calls \o <<Call("restore_func", i, NULL),
                                       Call("log_restore_failed", i, 0)>>)

\* RecoverLoop leaving the pass at the first slot restore_func yields
\* nothing for.
RECURSIVE RecoverLoopStopOnFail(_, _, _, _)
RecoverLoopStopOnFail(p, i, rf, calls) ==
    IF i > Len(p.resources) THEN [pool |-> p, calls |-> calls, threw |-> FALSE]
    ELSE IF ~p.released[i] THEN RecoverLoopStopOnFail(p, i + 1, rf, calls)
    ELSE IF ~params_.restore_func
         THEN [pool |-> p, calls |-> Append(calls, Call("restore_func", i, NULL)),
               threw |-> TRUE]
    ELSE IF rf[i] # NULL
         THEN RecoverLoopStopOnFail([resources |-> [p.resources EXCEPT ![i] = rf[i]],
                                     busy      |-> [p.busy EXCEPT ![i] = FALSE],
                                     released  |-> [p.released EXCEPT ![i] = FALSE]],
                                    i + 1, rf,
                                    calls \o <<Call("restore_func", i, rf[i]),
                                               Call("log_restored", i, 0)>>)
    ELSE [pool |-> p, threw |-> FALSE,
          calls |-> calls \o <<Call("restore_func", i, NULL),
                               Call("log_restore_failed", i, 0)>>]

\* The loop of maybeRecover from slot i on.  rf[i] is what restore_func(i)
\* yields (NULL: nothing).  An empty restore_func throws bad_function_call.
RECURSIVE RecoverLoop(_, _, _, _)
RecoverLoop(p, i, rf, calls) ==
    IF i > Len(p.resources) THEN [pool |-> p, calls |-> calls, threw |-> FALSE]
    ELSE IF ~p.released[i] THEN RecoverLoop(p, i + 1, rf, calls)
    ELSE IF ~params_.restore_func
         THEN [pool |-> p, calls |-> Append(calls, Call("restore_func", i, NULL)),
               threw |-> TRUE]
    ELSE IF rf[i] # NULL
         THEN RecoverLoop([resources |-> [p.resources EXCEPT ![i] = rf[i]],
                           busy      |-> [p.busy EXCEPT ![i] = FALSE],
                           released  |-> [p.released EXCEPT ![i] = FALSE]],
                          i + 1, rf,
                          calls \o <<Call("restore_func", i, rf[i]),
                                     Call("log_restored", i, 0)>>)
    ELSE RecoverLoop(p, i + 1, rf,
                     calls \o <<Call("restore_func", i, NULL),
                                Call("log_restore_failed", i, 0)>>)

\* maybeRecover running the pass whatever can_restore answers.
maybeRecoverUngated(p, cr, rf) ==
    IF ~params_.can_restore
    THEN [pool |-> p, calls |-> <<>>, threw |-> FALSE]
    ELSE RecoverLoop(p, 1, rf, <<Call("can_restore", activeCount(p), B2N(cr))>>)

\* maybeRecover(): cr is the answer of can_restore(active) when configured.
maybeRecover(p, cr, rf) ==
    IF ~params_.can_restore
    THEN [pool |-> p, calls |-> <<>>, threw |-> FALSE]
    ELSE LET asked == <<Call("can_restore", activeCount(p), B2N(cr))>>
         IN  IF ~cr THEN [pool |-> p, calls |-> asked, threw |-> FALSE]
             ELSE RecoverLoop(p, 1, rf, asked)

\* -------------------------------------------------------- maybeReleaseOne
\* Outcomes of release_func(resources_[i]): it returns, it throws leaving
\* the unique_ptr as it was, or it throws after taking the resource out of
\* the unique_ptr it was handed by reference.
ReleaseOutcomes == {"ok", "throw", "take_throw"}

\* ReleaseSlot without released_[i] = true.
ReleaseSlotNoFlag(p, i, ro, calls) ==
    LET marked == [p EXCEPT !.busy[i] = TRUE]
    IN  IF ~params_.release_func
        THEN [pool |-> marked, threw |-> TRUE,
              calls |-> Append(calls, Call("release_func", i, 0))]
        ELSE IF ro = "ok"
        THEN [pool |-> [marked EXCEPT !.resources[i] = NULL],
              threw |-> FALSE,
              calls |-> calls \o <<Call("release_func", i, 1),
                                   Call("log_released", i, 0)>>]
        ELSE [pool |-> IF ro = "take_throw"
                       THEN [marked EXCEPT !.resources[i] = NULL] ELSE marked,
              threw |-> TRUE,
              calls |-> Append(calls, Call("release_func", i, 0))]

\* ReleaseSlot taking the busy mark back when release_func throws.
ReleaseSlotRollback(p, i, ro, calls) ==
    LET marked == [p EXCEPT !.busy[i] = TRUE]
    IN  IF ~params_.release_func
        THEN [pool |-> p, threw |-> TRUE,
              calls |-> Append(calls, Call("release_func", i, 0))]
        ELSE IF ro = "ok"
        THEN [pool |-> [marked EXCEPT !.resources[i] = NULL, !.released[i] = TRUE],
              threw |-> FALSE,
              calls |-> calls \o <<Call("release_func", i, 1),
                                   Call("log_released", i, 0)>>]
        ELSE [pool |-> IF ro = "take_throw"
                       THEN [p EXCEPT !.resources[i] = NULL] ELSE p,
              threw |-> TRUE,
              calls |-> Append(calls, Call("release_func", i, 0))]

\* The teardown of slot i (lines 171-175).
ReleaseSlot(p, i, ro, calls) ==
    LET marked == [p EXCEPT !.busy[i] = TRUE]
    IN  IF ~params_.release_func
        THEN [pool |-> marked, threw |-> TRUE,
              calls |-> Append(calls, Call("release_func", i, 0))]
        ELSE IF ro = "ok"
        THEN [pool |-> [marked EXCEPT !.resources[i] = NULL, !.released[i] = TRUE],
              threw |-> FALSE,
              calls |-> calls \o <<Call("release_func", i, 1),
                                   Call("log_released", i, 0)>>]
        ELSE [pool |-> IF ro = "take_throw"
                       THEN [marked EXCEPT !.resources[i] = NULL] ELSE marked,
              threw |-> TRUE,
              calls |-> Append(calls, Call("release_func", i, 0))]

\* ReleaseLoop without the active <= 1 floor.
RECURSIVE ReleaseLoopNoFloor(_, _, _, _, _)
ReleaseLoopNoFloor(p, i, active, ro, calls) ==
    IF i > Len(p.resources) THEN [pool |-> p, calls |-> calls, threw |-> FALSE]
    ELSE IF IsIdle(p, i) THEN ReleaseSlot(p, i, ro, calls)
    ELSE ReleaseLoopNoFloor(p, i + 1, active, ro, calls)

\* The loop of maybeReleaseOne from slot i on, with active computed on entry.
RECURSIVE ReleaseLoop(_, _, _, _, _)
ReleaseLoop(p, i, active, ro, calls) ==
    IF i > Len(p.resources) THEN [pool |-> p, calls |-> calls, threw |-> FALSE]
    ELSE IF IsIdle(p, i)
         THEN IF active <= 1
              THEN [pool |-> p, calls |-> calls, threw |-> FALSE]
              ELSE ReleaseSlot(p, i, ro, calls)
    ELSE ReleaseLoop(p, i + 1, active, ro, calls)

maybeReleaseOne(p, start_index, ro, calls) ==
    ReleaseLoop(p, start_index, activeCount(p), ro, calls)

\* ----------------------------------------------------------------- acquire
\* ClaimSlot without busy_[i].store(true).
ClaimSlotNoStore(p, i, calls) ==
    [pool |-> p, ret |-> p.resources[i], calls |-> calls, threw |-> FALSE, cand |-> i]

\* Claiming slot i for the caller (lines 106-107).
ClaimSlot(p, i, calls) ==
    [pool |-> [p EXCEPT !.busy[i] = TRUE], ret |-> p.resources[i],
     calls |-> calls, threw |-> FALSE, cand |-> i]

\* ScanLoop without the break after maybeReleaseOne: the scan goes on.
RECURSIVE ScanLoopNoBreak(_, _, _, _, _)
ScanLoopNoBreak(p, i, sr, ro, calls) ==
    IF i > Len(p.resources)
    THEN [pool |-> p, ret |-> NULL, calls |-> calls, threw |-> FALSE, cand |-> 0]
    ELSE IF IsIdle(p, i)
         THEN IF params_.should_release
              THEN LET asked == Append(calls, Call("should_release", activeCount(p), B2N(sr)))
                   IN  IF sr
                       THEN LET r == maybeReleaseOne(p, i, ro, asked)
                            IN  IF r.threw
                                THEN [pool |-> r.pool, ret |-> NULL, calls |-> r.calls,
                                      threw |-> TRUE, cand |-> i]
                                ELSE ScanLoopNoBreak(r.pool, i + 1, sr, ro, r.calls)
                       ELSE ClaimSlot(p, i, asked)
              ELSE ClaimSlot(p, i, calls)
    ELSE ScanLoopNoBreak(p, i + 1, sr, ro, calls)

\* ScanLoop testing only released_[i], not busy_[i].
RECURSIVE ScanLoopIgnoreBusy(_, _, _, _, _)
ScanLoopIgnoreBusy(p, i, sr, ro, calls) ==
    IF i > Len(p.resources)
    THEN [pool |-> p, ret |-> NULL, calls |-> calls, threw |-> FALSE, cand |-> 0]
    ELSE IF ~p.released[i]
         THEN IF params_.should_release
              THEN LET asked == Append(calls, Call("should_release", activeCount(p), B2N(sr)))
                   IN  IF sr
                       THEN LET r == maybeReleaseOne(p, i, ro, asked)
                            IN  [pool |-> r.pool, ret |-> NULL, calls |-> r.calls,
                                 threw |-> r.threw, cand |-> i]
                       ELSE ClaimSlot(p, i, asked)
              ELSE ClaimSlot(p, i, calls)
    ELSE ScanLoopIgnoreBusy(p, i + 1, sr, ro, calls)

\* ScanLoop serving the slot when the pool is at the floor of one active
\* slot instead of leaving the scan.
RECURSIVE ScanLoopServeAtFloor(_, _, _, _, _)
ScanLoopServeAtFloor(p, i, sr, ro, calls) ==
    IF i > Len(p.resources)
    THEN [pool |-> p, ret |-> NULL, calls |-> calls, threw |-> FALSE, cand |-> 0]
    ELSE IF IsIdle(p, i)
         THEN IF params_.should_release
              THEN LET asked == Append(calls, Call("should_release", activeCount(p), B2N(sr)))
                   IN  IF sr /\ activeCount(p) > 1
                       THEN LET r == maybeReleaseOne(p, i, ro, asked)
                            IN  [pool |-> r.pool, ret |-> NULL, calls |-> r.calls,
                                 threw |-> r.threw, cand |-> i]
                       ELSE ClaimSlot(p, i, asked)
              ELSE ClaimSlot(p, i, calls)
    ELSE ScanLoopServeAtFloor(p, i + 1, sr, ro, calls)

\* The scan of acquire from slot i on; sr is the answer of
\* should_release(activeCount()) when it is configured and asked.
RECURSIVE ScanLoop(_, _, _, _, _)
ScanLoop(p, i, sr, ro, calls) ==
    IF i > Len(p.resources)
    THEN [pool |-> p, ret |-> NULL, calls |-> calls, threw |-> FALSE, cand |-> 0]
    ELSE IF IsIdle(p, i)
         THEN IF params_.should_release
              THEN LET asked == Append(calls, Call("should_release", activeCount(p), B2N(sr)))
                   IN  IF sr
                       THEN LET r == maybeReleaseOne(p, i, ro, asked)
                            IN  [pool |-> r.pool, ret |-> NULL, calls |-> r.calls,
                                 threw |-> r.threw, cand |-> i]
                       ELSE ClaimSlot(p, i, asked)
              ELSE ClaimSlot(p, i, calls)
    ELSE ScanLoop(p, i + 1, sr, ro, calls)

\* The body of acquire(): recovery pass, then scan.  mid is the table as
\* the recovery pass left it.
acquire(p, cr, rf, sr, ro) ==
    LET rec == maybeRecover(p, cr, rf)
    IN  IF rec.threw
        THEN [pool |-> rec.pool, ret |-> NULL, calls |-> rec.calls, threw |-> TRUE,
              cand |-> 0, mid |-> rec.pool]
        ELSE LET s == ScanLoop(rec.pool, 1, sr, ro, rec.calls)
             IN  [pool |-> s.pool, ret |-> s.ret, calls |-> s.calls,
                  threw |-> s.threw, cand |-> s.cand, mid |-> rec.pool]

\* ----------------------------------------------------------------- release
\* FindSlot with the loop starting one slot late.
RECURSIVE FindSlotFromNext(_, _, _)
FindSlotFromNext(p, i, res_ptr) ==
    IF i + 1 > Len(p.resources) THEN 0
    ELSE IF p.resources[i + 1] = res_ptr THEN i + 1
    ELSE FindSlotFromNext(p, i + 1, res_ptr)

\* The first slot whose resource compares equal to res_ptr, 0 when none.
RECURSIVE FindSlot(_, _, _)
FindSlot(p, i, res_ptr) ==
    IF i > Len(p.resources) THEN 0
    ELSE IF p.resources[i] = res_ptr THEN i
    ELSE FindSlot(p, i + 1, res_ptr)

\* MarkIdle that also clears the released flag.
MarkIdleUnrelease(p, i) == [p EXCEPT !.busy[i] = FALSE, !.released[i] = FALSE]

\* MarkIdle without busy_[i].store(false).
MarkIdleNoStore(p, i) == p

\* The effect of release on the matching slot (line 118).
MarkIdle(p, i) == [p EXCEPT !.busy[i] = FALSE]

\* The body of release(res_ptr).
release(p, res_ptr) ==
    LET i == FindSlot(p, 1, res_ptr)
    IN  IF i # 0
        THEN [pool |-> MarkIdle(p, i), calls |-> <<>>]
        ELSE [pool |-> p, calls |-> <<Call("log_unknown", 0, 0)>>]

\* -------------------------------------------------------------- destructor
\* DestroyLoop passing over the slots whose busy_ flag is set.
RECURSIVE DestroyLoopIdleOnly(_, _, _, _)
DestroyLoopIdleOnly(p, i, ros, calls) ==
    IF i > Len(p.resources)
    THEN [pool |-> [resources |-> <<>>, busy |-> <<>>, released |-> <<>>],
          calls |-> Append(calls, Call("log_destroyed", 0, 0)), threw |-> FALSE]
    ELSE IF p.released[i] \/ p.busy[i] THEN DestroyLoopIdleOnly(p, i + 1, ros, calls)
    ELSE IF ~params_.release_func
         THEN DestroyLoopIdleOnly([p EXCEPT !.resources[i] = NULL], i + 1, ros, calls)
    ELSE IF ros[i] = "ok"
         THEN DestroyLoopIdleOnly([p EXCEPT !.resources[i] = NULL], i + 1, ros,
                                  Append(calls, Call("release_func", i, 1)))
    ELSE [pool |-> IF ros[i] = "take_throw"
                   THEN [p EXCEPT !.resources[i] = NULL] ELSE p,
          calls |-> Append(calls, Call("release_func", i, 0)), threw |-> TRUE]

\* The loop of ~AdaptiveResourcePool from slot i on.  ros[i] is the outcome
\* of release_func on slot i; a throw out of a destructor ends the process.
RECURSIVE DestroyLoop(_, _, _, _)
DestroyLoop(p, i, ros, calls) ==
    IF i > Len(p.resources)
    THEN [pool |-> [resources |-> <<>>, busy |-> <<>>, released |-> <<>>],
          calls |-> Append(calls, Call("log_destroyed", 0, 0)), threw |-> FALSE]
    ELSE IF p.released[i] THEN DestroyLoop(p, i + 1, ros, calls)
    ELSE IF ~params_.release_func
         THEN DestroyLoop([p EXCEPT !.resources[i] = NULL], i + 1, ros, calls)
    ELSE IF ros[i] = "ok"
         THEN DestroyLoop([p EXCEPT !.resources[i] = NULL], i + 1, ros,
                          Append(calls, Call("release_func", i, 1)))
    ELSE [pool |-> IF ros[i] = "take_throw"
                   THEN [p EXCEPT !.resources[i] = NULL] ELSE p,
          calls |-> Append(calls, Call("release_func", i, 0)), threw |-> TRUE]

\* ------------------------------------------------------------- environment
\* What restore_func may yield for the Released slots of p: nothing, or a
\* newly allocated object, whose address differs from that of every object
\* the pool owns and from the other objects allocated in the same pass.
\* The address of a torn-down resource may be handed out again.
Owned(p) == {p.resources[i] : i \in Slots(p)} \ {NULL}

RestoreYields(p) ==
    {rf \in [Slots(p) -> Addr \cup {NULL}] :
        /\ \A i \in Slots(p) : ~p.released[i] => rf[i] = NULL
        /\ \A i \in Slots(p) : rf[i] # NULL => rf[i] \notin Owned(p)
        /\ \A i, j \in Slots(p) : (i # j /\ rf[i] # NULL) => rf[i] # rf[j]}

EmptyPool == [resources |-> <<>>, busy |-> <<>>, released |-> <<>>]

NoLast == [op |-> "none", thread |-> 0, arg |-> NULL, ret |-> NULL, threw |-> FALSE,
           cand |-> 0, calls |-> <<>>, pre |-> EmptyPool, mid |-> EmptyPool,
           back |-> <<>>, handed0 |-> <<>>]

\* What a completed call leaves in last: op the operation, thread the caller
\* (0: not tracked), arg its argument, ret its result, threw whether an
\* exception left it, cand the slot the call selected (0: none), calls the
\* callbacks it invoked in order, pre the table on entry, mid the table
\* after the recovery pass (acquire only), back the table on entry of the
\* call before it when this call is a release of the handle that call, an
\* acquire, had just returned (<<>> otherwise), handed0 the value of handed
\* on entry.
Observe(op, t, arg, r, p) ==
    [op |-> op, thread |-> t, arg |-> arg, ret |-> r.ret, threw |-> r.threw,
     cand |-> r.cand, calls |-> r.calls, pre |-> p, mid |-> r.mid,
     back |-> IF op = "release" /\ last.op = "acquire" /\ last.ret # NULL
                 /\ last.ret = arg
              THEN <<last.pre, last.mid>> ELSE <<>>,
     handed0 |-> handed]

\* handed after a call that invoked the callbacks in calls: set for a slot
\* release_func was called on, cleared for a slot restore_func gave a
\* resource to.
HandedAfter(calls) ==
    [i \in DOMAIN handed |->
        IF \E k \in DOMAIN calls : calls[k].f = "release_func" /\ calls[k].a = i
        THEN TRUE
        ELSE IF \E k \in DOMAIN calls : calls[k].f = "restore_func" /\ calls[k].a = i
                                         /\ calls[k].r # NULL
        THEN FALSE
        ELSE handed[i]]

\* ------------------------------------------------------------------- Init
\* The constructor: the initializer's N resources, every slot Idle.
InitWith(configs) ==
    /\ params_ \in configs
    /\ \E n \in 1..MaxN :
          /\ resources_ = [i \in 1..n |-> i]
          /\ busy_ = [i \in 1..n |-> FALSE]
          /\ released_ = [i \in 1..n |-> FALSE]
    /\ mutex_ = 0
    /\ alive = TRUE
    /\ pc = [t \in Threads |-> "ready"]
    /\ holds = [t \in Threads |-> {}]
    /\ handed = [i \in DOMAIN resources_ |-> FALSE]
    /\ last = NoLast

AllParams == [can_restore : BOOLEAN, should_release : BOOLEAN,
              restore_func : BOOLEAN, release_func : BOOLEAN]

\* No release/restore policy: both admission predicates are empty.
NoPolicyParams == {c \in AllParams : ~c.can_restore /\ ~c.should_release}

Init == InitWith(AllParams)

InitNoPolicy == InitWith(NoPolicyParams)

\* ------------------------------------------------------ operation bodies
SetPool(p) ==
    /\ resources_' = p.resources
    /\ busy_' = p.busy
    /\ released_' = p.released

\* What the admission predicates may answer; one that is not configured is
\* never asked.
CanRestoreAnswers == IF params_.can_restore THEN BOOLEAN ELSE {FALSE}

ShouldReleaseAnswers == IF params_.should_release THEN BOOLEAN ELSE {FALSE}

\* acquire() from the lock_guard to the return (or the throw); t is the
\* calling thread, 0 when the caller is not tracked.
DoAcquire(t) ==
    \E cr \in CanRestoreAnswers :
    \E rf \in (IF cr THEN RestoreYields(Pool) ELSE {[i \in Slots(Pool) |-> NULL]}) :
    \E sr \in ShouldReleaseAnswers :
    \E ro \in (IF sr THEN ReleaseOutcomes ELSE {"ok"}) :
        LET r == acquire(Pool, cr, rf, sr, ro)
        IN  /\ SetPool(r.pool)
            /\ last' = Observe("acquire", t, NULL, r, Pool)

\* release(res_ptr).
DoRelease(t, res_ptr) ==
    LET r == release(Pool, res_ptr)
    IN  /\ SetPool(r.pool)
        /\ last' = Observe("release", t, res_ptr,
                           [ret |-> NULL, threw |-> FALSE, calls |-> r.calls,
                            cand |-> FindSlot(Pool, 1, res_ptr), mid |-> Pool], Pool)

\* idleCount().
DoIdleCount(t) ==
    /\ last' = Observe("idleCount", t, NULL,
                       [ret |-> idleCountOf(Pool), threw |-> FALSE, calls |-> <<>>,
                        cand |-> 0, mid |-> Pool], Pool)
    /\ UNCHANGED <<resources_, busy_, released_>>

\* ---------------------------------------------------------------- actions
\* The pool as its callers see it: a whole call of a public operation is
\* one step, since the lock_guard spans the body.  Any handle value may be
\* passed to release.
AcquireCall ==
    /\ alive /\ mutex_ = 0
    /\ DoAcquire(0)
    /\ UNCHANGED <<params_, mutex_, alive, pc, holds, handed>>

ReleaseCall(res_ptr) ==
    /\ alive /\ mutex_ = 0
    /\ DoRelease(0, res_ptr)
    /\ UNCHANGED <<params_, mutex_, alive, pc, holds, handed>>

IdleCountCall ==
    /\ alive /\ mutex_ = 0
    /\ DoIdleCount(0)
    /\ UNCHANGED <<params_, mutex_, alive, pc, holds, handed>>

\* The outcomes of the release_func calls of one destructor run: one per
\* slot it is called on, none after the first throw.
DestroyOutcomes(p) ==
    {ros \in [Slots(p) -> ReleaseOutcomes] :
        /\ \A i \in Slots(p) : (p.released[i] \/ ~params_.release_func) => ros[i] = "ok"
        /\ \A i, j \in Slots(p) : (i < j /\ ros[i] # "ok") => ros[j] = "ok"}

\* The destructor, run when no call is in flight.
DoDestroy ==
    /\ alive
    /\ mutex_ = 0
    /\ \A t \in Threads : pc[t] = "ready"
    /\ \E ros \in DestroyOutcomes(Pool) :
          LET r == DestroyLoop(Pool, 1, ros, <<>>)
          IN  /\ SetPool(r.pool)
              /\ last' = Observe("destroy", 0, NULL,
                                 [ret |-> NULL, threw |-> r.threw, calls |-> r.calls,
                                  cand |-> 0, mid |-> Pool], Pool)
    /\ alive' = FALSE
    /\ UNCHANGED <<params_, mutex_, pc, holds>>

Destroy ==
    /\ DoDestroy
    /\ UNCHANGED handed

Next ==
    \/ AcquireCall
    \/ \E h \in Handles : ReleaseCall(h)
    \/ IdleCountCall
    \/ Destroy

Spec == Init /\ [][Next]_vars

\* The pool with no release/restore policy configured.
SpecNoPolicy == InitNoPolicy /\ [][Next]_vars

\* The same calls, keeping track in handed of the slots release_func was
\* called on.
AcquireTracked ==
    /\ alive /\ mutex_ = 0
    /\ DoAcquire(0)
    /\ handed' = HandedAfter(last'.calls)
    /\ UNCHANGED <<params_, mutex_, alive, pc, holds>>

DestroyTracked ==
    /\ DoDestroy
    /\ handed' = HandedAfter(last'.calls)

NextTracked ==
    \/ AcquireTracked
    \/ \E h \in Handles : ReleaseCall(h)
    \/ IdleCountCall
    \/ DestroyTracked

SpecTracked == Init /\ [][NextTracked]_vars

\* ------------------------------------------------ client threads and lock
\* A thread calls a public operation and reaches its lock_guard.
Invoke(t, op) ==
    /\ alive
    /\ pc[t] = "ready"
    /\ op = "release" => holds[t] # {}
    /\ pc' = [pc EXCEPT ![t] = op]
    /\ UNCHANGED <<params_, resources_, busy_, released_, mutex_, alive, holds, handed, last>>

\* std::lock_guard's constructor: blocks until the mutex is free.
Lock(t) ==
    /\ pc[t] \in {"acquire", "release", "idleCount"}
    /\ mutex_ = 0
    /\ mutex_' = t
    /\ UNCHANGED <<params_, resources_, busy_, released_, alive, pc, holds, handed, last>>

\* Unlock leaving the mutex taken.
UnlockKeepsMutex(t) ==
    /\ mutex_' = mutex_
    /\ pc' = [pc EXCEPT ![t] = "ready"]
    /\ UNCHANGED <<params_, alive, handed>>

\* The lock_guard's destructor on the way out of the operation.
Unlock(t) ==
    /\ mutex_' = 0
    /\ pc' = [pc EXCEPT ![t] = "ready"]
    /\ UNCHANGED <<params_, alive, handed>>

\* Thread t runs acquire() under the lock and keeps the handle it gets.
Acquire(t) ==
    /\ pc[t] = "acquire" /\ mutex_ = t
    /\ DoAcquire(t)
    /\ holds' = IF last'.ret # NULL
                THEN [holds EXCEPT ![t] = @ \cup {last'.ret}] ELSE holds
    /\ Unlock(t)

\* Thread t runs release(res_ptr) under the lock and forgets the handle.
Release(t, res_ptr) ==
    /\ pc[t] = "release" /\ mutex_ = t
    /\ DoRelease(t, res_ptr)
    /\ holds' = [holds EXCEPT ![t] = @ \ {res_ptr}]
    /\ Unlock(t)

IdleCount(t) ==
    /\ pc[t] = "idleCount" /\ mutex_ = t
    /\ DoIdleCount(t)
    /\ UNCHANGED holds
    /\ Unlock(t)

\* Threads contending for the lock; each releases only handles it holds.
NextLocked ==
    \/ \E t \in Threads : \E op \in {"acquire", "release", "idleCount"} : Invoke(t, op)
    \/ \E t \in Threads : Lock(t)
    \/ \E t \in Threads : Acquire(t)
    \/ \E t \in Threads : \E h \in holds[t] : Release(t, h)
    \/ \E t \in Threads : IdleCount(t)

SpecLockedNoPolicy == InitNoPolicy /\ [][NextLocked]_vars

\* Fair scheduling: a thread that keeps finding the mutex free at times
\* gets it, and a thread inside an operation keeps running.
Fairness ==
    \A t \in Threads :
        /\ SF_vars(Lock(t))
        /\ WF_vars(Acquire(t))
        /\ WF_vars(\E h \in holds[t] : Release(t, h))
        /\ WF_vars(IdleCount(t))

\* Fairly scheduled threads over the pool with no release/restore policy.
SpecLockedFair == InitNoPolicy /\ [][NextLocked]_vars /\ Fairness

\* ------------------------------------------------ callers that keep handles
\* The calls as the lock serialises them, one whole call per step, with the
\* handles each thread keeps.
AcquireBy(t) ==
    /\ alive /\ mutex_ = 0
    /\ DoAcquire(t)
    /\ holds' = IF last'.ret # NULL
                THEN [holds EXCEPT ![t] = @ \cup {last'.ret}] ELSE holds
    /\ UNCHANGED <<params_, mutex_, alive, pc, handed>>

\* ReleaseBy that looks at the caller: a release by a thread that does not
\* hold the handle leaves the table as it is.
ReleaseByHolderOnly(t, res_ptr) ==
    /\ alive /\ mutex_ = 0
    /\ IF res_ptr \in holds[t]
       THEN DoRelease(t, res_ptr)
       ELSE /\ UNCHANGED <<resources_, busy_, released_>>
            /\ last' = Observe("release", t, res_ptr,
                               [ret |-> NULL, threw |-> FALSE, calls |-> <<>>,
                                cand |-> 0, mid |-> Pool], Pool)
    /\ holds' = [holds EXCEPT ![t] = @ \ {res_ptr}]
    /\ UNCHANGED <<params_, mutex_, alive, pc, handed>>

ReleaseBy(t, res_ptr) ==
    /\ alive /\ mutex_ = 0
    /\ DoRelease(t, res_ptr)
    /\ holds' = [holds EXCEPT ![t] = @ \ {res_ptr}]
    /\ UNCHANGED <<params_, mutex_, alive, pc, handed>>

IdleCountBy(t) ==
    /\ alive /\ mutex_ = 0
    /\ DoIdleCount(t)
    /\ UNCHANGED <<params_, mutex_, alive, pc, holds, handed>>

\* Each thread releases only handles it holds.
NextHeld ==
    \/ \E t \in Threads : AcquireBy(t)
    \/ \E t \in Threads : \E h \in holds[t] : ReleaseBy(t, h)
    \/ \E t \in Threads : IdleCountBy(t)

SpecHeld == Init /\ [][NextHeld]_vars

\* A thread may also release a handle it does not hold, such as one it
\* gave back before.
NextReleaseAgain ==
    \/ \E t \in Threads : AcquireBy(t)
    \/ \E t \in Threads : \E h \in Addr : ReleaseBy(t, h)
    \/ \E t \in Threads : IdleCountBy(t)

SpecReleaseAgain == InitNoPolicy /\ [][NextReleaseAgain]_vars

\* ================================================================ claims
\* Reading an observation.
Asked(l, f) == \E k \in DOMAIN l.calls : l.calls[k].f = f

Answered(l, f, r) == \E k \in DOMAIN l.calls : l.calls[k].f = f /\ l.calls[k].r = r

RestoreAdmitted(l) == Answered(l, "can_restore", 1)

ShrinkAdmitted(l) == Answered(l, "should_release", 1)

\* Slots the recovery pass of the observed acquire restored.
RestoredBy(l) == {i \in Slots(l.pre) : l.pre.released[i] /\ ~l.mid.released[i]}

\* Slots in the Busy state: claimed and not Released.
BusySlots(p) == {i \in Slots(p) : p.busy[i] /\ ~p.released[i]}

\* Handles held, counted per holding thread.
Holdings == {th \in Threads \X Addr : th[2] \in holds[th[1]]}

\* ---------------------------------------------------------------------- C1
\* C1: with threads calling acquire concurrently on a pool with no
\* release/restore policy, an acquire never returns a handle that some
\* thread still holds, no handle is held by two threads, and the handles
\* held never outnumber the slots.
C1_AcquireReturnsUnheld ==
    \A t \in Threads :
        (pc[t] = "acquire" /\ pc'[t] = "ready" /\ last'.ret # NULL)
            => \A u \in Threads : last'.ret \notin holds[u]

\* C1 (formula): the three state conditions hold always and every acquire
\* step returns an unheld handle.
C1_MutualExclusion ==
    /\ [](/\ \A t, u \in Threads : t # u => holds[t] \cap holds[u] = {}
          /\ Cardinality(Holdings) <= Len(resources_)
          /\ Cardinality(Holdings) = Cardinality(BusySlots(Pool)))
    /\ [][C1_AcquireReturnsUnheld]_vars

\* Two threads hold handles at once and every slot of a 2+ slot pool is taken.
C1_Witness ==
    /\ Len(resources_) >= 2
    /\ \A t \in Threads : holds[t] # {}
    /\ Cardinality(Holdings) = Len(resources_)
    /\ last.op = "acquire" /\ last.ret # NULL

\* ---------------------------------------------------------------------- C2
\* C2: with no policy configured, acquire returns a handle exactly when a
\* slot was Idle on entry; a successful acquire lowers the idle count by
\* one, an empty acquire changes no slot, and releasing the handle of a
\* Busy slot raises the idle count by one, leaving an Idle slot for the
\* next acquire.
C2_NoPolicyAcquireRelease ==
    /\ last.op = "acquire" =>
          /\ (last.ret # NULL) <=> (idleCountOf(last.pre) > 0)
          /\ last.ret # NULL => idleCountOf(Pool) = idleCountOf(last.pre) - 1
          /\ last.ret = NULL => Pool = last.pre
    /\ (last.op = "release" /\ last.arg \in {last.pre.resources[i] : i \in BusySlots(last.pre)}) =>
          /\ idleCountOf(Pool) = idleCountOf(last.pre) + 1
          /\ idleCountOf(Pool) > 0

\* The acquire that finds every slot of the largest pool taken.
C2_Witness ==
    /\ last.op = "acquire" /\ last.ret = NULL
    /\ Len(resources_) = MaxN /\ idleCountOf(Pool) = 0
    /\ Pool = last.pre

\* ---------------------------------------------------------------------- C3
\* C3: while the pool lives at least one slot is not Released, whatever the
\* policies; and an acquire whose restore-admission did not admit never
\* raises the active count.
C3_ShrinkFloor ==
    alive =>
        /\ activeCount(Pool) >= 1
        /\ (last.op = "acquire" /\ ~RestoreAdmitted(last)) =>
              activeCount(Pool) <= activeCount(last.pre)

\* The floor at work: shrink was admitted with one active slot left, Idle.
C3_Witness ==
    /\ alive /\ last.op = "acquire" /\ ShrinkAdmitted(last) /\ ~RestoreAdmitted(last)
    /\ last.cand # 0
    /\ Len(resources_) = MaxN
    /\ activeCount(last.pre) = 1 /\ activeCount(Pool) = 1

\* ---------------------------------------------------------------------- C4
\* C4: in an acquire whose release-admission predicate, asked with the
\* active count the recovery pass left, admits at the first Idle slot, no
\* handle goes to the caller even when Idle slots follow the candidate, no
\* slot other than the candidate changes after the recovery pass, and the
\* candidate becomes Released only if the active count exceeded 1.
C4_ShrinkBeforeServe ==
    (last.op = "acquire" /\ ShrinkAdmitted(last)) =>
        /\ last.ret = NULL
        /\ last.cand # 0
        /\ \A i \in Slots(last.mid) : IsIdle(last.mid, i) => i >= last.cand
        /\ IsIdle(last.mid, last.cand)
        /\ Answered(last, "should_release", 1)
        /\ \A k \in DOMAIN last.calls :
              last.calls[k].f = "should_release" => last.calls[k].a = activeCount(last.mid)
        /\ \A i \in Slots(Pool) :
              i # last.cand => /\ resources_[i] = last.mid.resources[i]
                               /\ busy_[i] = last.mid.busy[i]
                               /\ released_[i] = last.mid.released[i]
        /\ released_[last.cand] => activeCount(last.mid) > 1
        /\ BusySlots(Pool) \subseteq BusySlots(last.mid) \cup
              (IF last.threw THEN {last.cand} ELSE {})

\* Shrink was admitted and carried out while a later slot stayed Idle.
C4_Witness ==
    /\ last.op = "acquire" /\ ShrinkAdmitted(last) /\ ~last.threw
    /\ released_[last.cand]
    /\ \E j \in Slots(Pool) : j > last.cand /\ IsIdle(Pool, j)

\* ---------------------------------------------------------------------- C5
\* C5 as stated: after an acquire whose restore-admission admitted and whose
\* restore action succeeded on every Released slot, a slot that was
\* Released is Idle and the idle count is greater than before the call.
C5_Original ==
    (/\ last.op = "acquire" /\ RestoreAdmitted(last)
     /\ ~Asked(last, "log_restore_failed") /\ params_.restore_func
     /\ \E i \in Slots(last.pre) : last.pre.released[i]) =>
        /\ \A i \in Slots(last.pre) : last.pre.released[i] => IsIdle(Pool, i)
        /\ idleCountOf(Pool) > idleCountOf(last.pre)

\* C5 as amended: the recovery pass of such an acquire makes every Released
\* slot Idle with a resource; at the end of the call each of them is still
\* Idle except the one the scan selected, and the idle count is the count
\* before the call plus the number of slots that were Released minus one.
C5_RestoreRecovers ==
    (/\ last.op = "acquire" /\ RestoreAdmitted(last)
     /\ ~Asked(last, "log_restore_failed") /\ params_.restore_func
     /\ \E i \in Slots(last.pre) : last.pre.released[i]) =>
        LET was == {i \in Slots(last.pre) : last.pre.released[i]}
        IN  /\ \A i \in was : IsIdle(last.mid, i) /\ last.mid.resources[i] # NULL
            /\ activeCount(last.mid) = Len(resources_)
            /\ last.cand # 0
            /\ \A i \in was : i # last.cand => IsIdle(Pool, i)
            /\ idleCountOf(Pool) = idleCountOf(last.pre) + Cardinality(was) - 1

\* The one Released slot was restored and handed to the caller at once, so
\* the idle count is what it was.
C5_Witness ==
    /\ last.op = "acquire" /\ RestoreAdmitted(last) /\ last.ret # NULL
    /\ Cardinality({i \in Slots(last.pre) : last.pre.released[i]}) = 1
    /\ last.pre.released[last.cand]
    /\ ~IsIdle(Pool, last.cand)
    /\ idleCountOf(Pool) = idleCountOf(last.pre)

\* ---------------------------------------------------------------------- C6
\* The derived state of slot i.
StateOf(p, i) ==
    IF p.released[i] THEN "Released" ELSE IF p.busy[i] THEN "Busy" ELSE "Idle"

\* C6 as stated: a release of a handle that is the resource of no slot
\* owning a resource (a foreign handle, a stale one, nullptr) leaves the
\* idle count and every slot's state as they were and logs one diagnostic.
C6_UnknownHandle ==
    (last.op = "release" /\ last.arg \notin Owned(last.pre)) =>
        /\ idleCountOf(Pool) = idleCountOf(last.pre)
        /\ \A i \in Slots(Pool) : StateOf(Pool, i) = StateOf(last.pre, i)
        /\ last.calls = <<Call("log_unknown", 0, 0)>>

\* ---------------------------------------------------------------------- C7
\* C7 as stated: when a release returns the handle the acquire right before
\* it handed out, the idle count is what it was before that acquire.
C7_Original ==
    (last.op = "release" /\ last.back # <<>>) =>
        idleCountOf(Pool) = idleCountOf(last.back[1])

\* C7 as amended: after such a release the idle count is the count before
\* the acquire plus the number of slots that acquire's recovery pass
\* restored.
C7_RoundTrip ==
    (last.op = "release" /\ last.back # <<>>) =>
        LET before == last.back[1]
            recovered == last.back[2]
            restored == {i \in Slots(before) :
                            before.released[i] /\ ~recovered.released[i]}
        IN  idleCountOf(Pool) = idleCountOf(before) + Cardinality(restored)

\* A round trip whose acquire restored a slot on the way.
C7_Witness ==
    /\ last.op = "release" /\ last.back # <<>>
    /\ idleCountOf(Pool) > idleCountOf(last.back[1])
    /\ \E i \in Slots(Pool) : last.back[1].released[i] /\ ~released_[i]

\* ---------------------------------------------------------------------- C8
\* C8 as stated: between operations every Released slot owns no resource
\* and every slot that is not Released owns one.
C8_SlotResource ==
    alive => \A i \in Slots(Pool) : released_[i] <=> (resources_[i] = NULL)

\* ---------------------------------------------------------------------- C9
\* C9: release(h) leaves every resource and released flag as it was, invokes
\* no policy callback, and changes at most the busy flag of the first slot
\* whose resource is h, to false; on the handle of an Idle slot it changes
\* nothing at all.
C9_ReleaseFrame ==
    last.op = "release" =>
        /\ resources_ = last.pre.resources
        /\ released_ = last.pre.released
        /\ activeCount(Pool) = activeCount(last.pre)
        /\ \A i \in Slots(Pool) :
              busy_[i] # last.pre.busy[i] =>
                  /\ last.pre.resources[i] = last.arg
                  /\ \A j \in 1..(i - 1) : last.pre.resources[j] # last.arg
                  /\ ~busy_[i]
        /\ \A i \in Slots(Pool) :
              (/\ last.pre.resources[i] = last.arg
               /\ \A j \in 1..(i - 1) : last.pre.resources[j] # last.arg) => ~busy_[i]
        /\ \A k \in DOMAIN last.calls : last.calls[k].f = "log_unknown"
        /\ (\E i \in Slots(last.pre) :
                last.pre.resources[i] = last.arg /\ last.arg # NULL /\ IsIdle(last.pre, i))
              => Pool = last.pre

\* A Busy slot went back to Idle through release of its handle.
C9_Witness ==
    /\ last.op = "release" /\ last.arg # NULL
    /\ \E i \in Slots(Pool) :
          /\ last.pre.resources[i] = last.arg
          /\ last.pre.busy[i] /\ ~last.pre.released[i]
          /\ IsIdle(Pool, i)

\* --------------------------------------------------------------------- C10
\* The scenario: three slots, all Idle; restore-admission does not admit;
\* release-admission, asked with active count 3, admits (3 > 1); the
\* release action returns.
C10_Scenario ==
    /\ last.op = "acquire" /\ ~last.threw
    /\ Len(last.pre.resources) = 3 /\ idleCountOf(last.pre) = 3
    /\ ~RestoreAdmitted(last)
    /\ \E k \in DOMAIN last.calls :
          last.calls[k] = Call("should_release", 3, 1)

\* C10 as stated: the acquire of the scenario returns empty, releases
\* slot 0, takes the active count from 3 to 2 and leaves idleCount() == 1.
C10_Original ==
    C10_Scenario =>
        /\ last.ret = NULL
        /\ released_[1]
        /\ activeCount(last.pre) = 3 /\ activeCount(Pool) = 2
        /\ idleCountOf(Pool) = 1

\* C10 as amended: the same, with idleCount() == 2 afterwards, the other
\* two slots still Idle.
C10_ShrinkScenario ==
    C10_Scenario =>
        /\ last.ret = NULL
        /\ released_[1] /\ resources_[1] = NULL
        /\ IsIdle(Pool, 2) /\ IsIdle(Pool, 3)
        /\ activeCount(last.pre) = 3 /\ activeCount(Pool) = 2
        /\ idleCountOf(Pool) = 2

C10_Witness ==
    /\ C10_Scenario
    /\ released_[1] /\ idleCountOf(Pool) = 2

\* --------------------------------------------------------------------- C11
\* The slots the observed call invoked callback f on, in the order of the
\* invocations.
IsRestoreCall(c) == c.f = "restore_func"

IsReleaseCall(c) == c.f = "release_func"

SlotsRestoreCalled(l) ==
    LET s == SelectSeq(l.calls, IsRestoreCall) IN [k \in DOMAIN s |-> s[k].a]

SlotsReleaseCalled(l) ==
    LET s == SelectSeq(l.calls, IsReleaseCall) IN [k \in DOMAIN s |-> s[k].a]

Ascending(s) == \A j, k \in DOMAIN s : j < k => s[j] < s[k]

Range(s) == {s[k] : k \in DOMAIN s}

\* C11: the destructor, run in any reachable state, invokes the release
\* action (when one is configured) in ascending slot order, at most once per
\* slot and on no Released slot; when it runs to its end it has invoked it
\* exactly once on every slot that was not Released, Idle or Busy, and
\* the pool owns no resource afterwards.
C11_Teardown ==
    (last.op = "destroy") =>
        LET done == SlotsReleaseCalled(last) IN
        /\ Ascending(done)
        /\ \A i \in Range(done) : i \in Slots(last.pre) /\ ~last.pre.released[i]
        /\ ~params_.release_func => done = <<>>
        /\ (params_.release_func /\ ~last.threw) =>
               Range(done) = {i \in Slots(last.pre) : ~last.pre.released[i]}
        /\ ~last.threw => (Pool = EmptyPool /\ Owned(Pool) = {})
        /\ ~alive

\* A destructor that ran to its end over a Busy, an Idle and a Released slot.
C11_Witness ==
    /\ last.op = "destroy" /\ ~last.threw /\ params_.release_func
    /\ {StateOf(last.pre, i) : i \in Slots(last.pre)} = {"Idle", "Busy", "Released"}
    /\ Len(SlotsReleaseCalled(last)) = 2

IsCanRestoreCall(c) == c.f = "can_restore"

\* Slots Released in table p.
ReleasedIn(p) == {i \in Slots(p) : p.released[i]}

\* What restore_func yielded for slot i in the observed call (NULL: nothing,
\* or not asked).
YieldOf(l, i) ==
    IF \E k \in DOMAIN l.calls : l.calls[k].f = "restore_func" /\ l.calls[k].a = i
    THEN LET k == CHOOSE k \in DOMAIN l.calls :
                     l.calls[k].f = "restore_func" /\ l.calls[k].a = i
         IN  l.calls[k].r
    ELSE NULL

\* C13: every acquire evaluates a configured restore-admission predicate
\* exactly once, first of all callbacks and on the active count at entry.
\* When the predicate is not configured or answers false, the restore action
\* is not invoked and the recovery pass changes nothing.  When it answers
\* true (and a restore action is configured), the restore action is invoked
\* exactly once for each slot Released at entry, in ascending slot order,
\* every slot it yields a resource for is Idle with that resource after the
\* pass, and the pass changes no other slot.
C13_RecoveryPass ==
    (last.op = "acquire") =>
        LET offered == SlotsRestoreCalled(last) IN
        /\ Len(SelectSeq(last.calls, IsCanRestoreCall)) = B2N(params_.can_restore)
        /\ params_.can_restore =>
               last.calls[1] = Call("can_restore", activeCount(last.pre),
                                    B2N(RestoreAdmitted(last)))
        /\ ~RestoreAdmitted(last) => (offered = <<>> /\ last.mid = last.pre)
        /\ (RestoreAdmitted(last) /\ params_.restore_func) =>
               /\ Ascending(offered)
               /\ Range(offered) = ReleasedIn(last.pre)
               /\ \A i \in Slots(last.pre) :
                     IF i \in ReleasedIn(last.pre) /\ YieldOf(last, i) # NULL
                     THEN /\ IsIdle(last.mid, i)
                          /\ last.mid.resources[i] = YieldOf(last, i)
                     ELSE /\ last.mid.resources[i] = last.pre.resources[i]
                          /\ last.mid.busy[i] = last.pre.busy[i]
                          /\ last.mid.released[i] = last.pre.released[i]

\* An admitted recovery pass that restored two Released slots.
C13_Witness ==
    /\ last.op = "acquire" /\ RestoreAdmitted(last) /\ params_.restore_func
    /\ Cardinality(ReleasedIn(last.pre)) = 2
    /\ \A i \in ReleasedIn(last.pre) : IsIdle(last.mid, i)

\* --------------------------------------------------------------------- C14
\* Slots the restore action yielded nothing for in the observed acquire.
FailedIn(l) ==
    {i \in Slots(l.pre) : \E k \in DOMAIN l.calls :
        l.calls[k].f = "restore_func" /\ l.calls[k].a = i /\ l.calls[k].r = NULL}

\* C14: when a configured restore action yields nothing for a Released
\* slot, a diagnostic for that slot is logged right after, the slot is
\* still Released with no resource at the end of the call, it was offered
\* once in that call, and the pass went on to every later Released slot;
\* the acquire that follows, when its restore-admission predicate admits,
\* offers the slot again.
C14_RestoreFailure ==
    /\ [](((last.op = "acquire") /\ params_.restore_func) =>
            \A k \in DOMAIN last.calls :
                (last.calls[k].f = "restore_func" /\ last.calls[k].r = NULL) =>
                    LET i == last.calls[k].a IN
                    /\ k < Len(last.calls)
                    /\ last.calls[k + 1] = Call("log_restore_failed", i, 0)
                    /\ Pool.released[i] /\ Pool.resources[i] = NULL
                    /\ \A j \in DOMAIN last.calls :
                          (last.calls[j].f = "restore_func" /\ last.calls[j].a = i)
                              => j = k
                    /\ \A n \in ReleasedIn(last.pre) :
                          n > i => \E j \in DOMAIN last.calls :
                                      /\ j > k
                                      /\ last.calls[j].f = "restore_func"
                                      /\ last.calls[j].a = n)
    /\ [][((last.op = "acquire") /\ params_.restore_func
            /\ (last'.op = "acquire") /\ RestoreAdmitted(last')) =>
              FailedIn(last) \subseteq Range(SlotsRestoreCalled(last'))]_vars

\* The restore action yielded nothing for slot 1 and the pass went on to
\* restore slot 2.
C14_Witness ==
    /\ last.op = "acquire" /\ params_.restore_func
    /\ 1 \in FailedIn(last)
    /\ 2 \in ReleasedIn(last.pre) /\ IsIdle(last.mid, 2)

\* --------------------------------------------------------------------- C15
\* Slots Idle in table p.
IdleIn(p) == {i \in Slots(p) : IsIdle(p, i)}

\* C15: whenever acquire returns a non-empty handle, the table after the
\* recovery pass has an Idle slot, the handle is the resource of the
\* lowest-index one, the call changes that slot from Idle to Busy and
\* no other slot after the recovery pass, it invokes no release action and
\* no slot is Released that was not Released at entry.
C15_LowestIdle ==
    ((last.op = "acquire") /\ last.ret # NULL) =>
        /\ IdleIn(last.mid) # {}
        /\ LET i == CHOOSE i \in IdleIn(last.mid) : \A j \in IdleIn(last.mid) : i <= j
           IN  /\ last.ret = last.mid.resources[i]
               /\ Pool = [last.mid EXCEPT !.busy[i] = TRUE]
               /\ StateOf(Pool, i) = "Busy"
        /\ ReleasedIn(Pool) \subseteq ReleasedIn(last.pre)
        /\ ~Asked(last, "release_func")
        /\ ~last.threw

\* An acquire handed out slot 2 while slot 1 was Busy and slot 3 Idle.
C15_Witness ==
    /\ last.op = "acquire" /\ last.ret # NULL
    /\ Len(last.mid.resources) = 3
    /\ StateOf(last.mid, 1) = "Busy" /\ IsIdle(last.mid, 2) /\ IsIdle(last.mid, 3)
    /\ last.ret = last.mid.resources[2]

\* --------------------------------------------------------------------- C16
\* Slots a shrink failed on: release_func was called on the slot and did not
\* return, so the slot is not Released, and it was not restored since.
Stuck == {i \in DOMAIN handed : handed[i] /\ i \in Slots(Pool) /\ ~released_[i]}

\* The acquire observed in l ended in a throw out of the release action.
ShrinkFailed(l) == l.op = "acquire" /\ l.threw /\ Asked(l, "release_func")

SlotOf(p, h) == IF \E i \in Slots(p) : p.resources[i] = h
                THEN CHOOSE i \in Slots(p) : p.resources[i] = h ELSE 0

AllHeld == UNION {holds[t] : t \in Threads}

\* C17: for any policy configuration and any interleaving of calls in which
\* each thread releases only handles it holds, every held handle is the
\* resource of exactly one slot, which is Busy and not Released, and no
\* handle is held by two threads; a held handle stays held, in the same
\* slot, until its holder releases it; no acquire returns a held handle,
\* and no acquire calls the release action or the restore action on the
\* slot of a held handle.
C17_HeldStaysValid ==
    /\ [](/\ \A h \in AllHeld :
                /\ Cardinality({i \in Slots(Pool) : resources_[i] = h}) = 1
                /\ StateOf(Pool, SlotOf(Pool, h)) = "Busy"
           /\ \A t, u \in Threads : t # u => holds[t] \cap holds[u] = {})
    /\ [][\A t \in Threads : \A h \in holds[t] :
            /\ (last'.op = "acquire") =>
                   /\ last'.ret # h
                   /\ \A k \in DOMAIN last'.calls :
                         last'.calls[k].f \in {"restore_func", "release_func"}
                             => last'.calls[k].a # SlotOf(Pool, h)
            /\ ~(last'.op = "release" /\ last'.thread = t /\ last'.arg = h) =>
                   /\ h \in holds'[t]
                   /\ resources_'[SlotOf(Pool, h)] = h
                   /\ busy_'[SlotOf(Pool, h)]
                   /\ ~released_'[SlotOf(Pool, h)]]_vars

\* While thread 1 holds a handle, an acquire of thread 2 restored a slot
\* and shrank one.
C17_Witness ==
    /\ holds[1] # {}
    /\ last.op = "acquire" /\ last.thread = 2
    /\ RestoredBy(last) # {}
    /\ Answered(last, "release_func", 1)

\* --------------------------------------------------------------------- C18
\* C18: release looks at the handle only, not at the caller.  When a thread
\* releases a handle that another thread holds, the slot of that handle
\* becomes Idle while the other thread goes on holding it; and an acquire
\* returns the resource of the lowest-index Idle slot to its caller whether
\* or not some thread holds that handle already.
C18_ReleaseByIdentity ==
    /\ [][\A u \in Threads : \A h \in holds[u] :
            (last'.op = "release" /\ last'.arg = h /\ last'.thread # u) =>
                /\ h \in holds'[u]
                /\ IsIdle([resources |-> resources_', busy |-> busy_',
                           released |-> released_'], SlotOf(Pool, h))]_vars
    /\ [][(last'.op = "acquire" /\ IdleIn(Pool) # {}) =>
            LET i == CHOOSE i \in IdleIn(Pool) : \A j \in IdleIn(Pool) : i <= j
            IN  /\ last'.ret = resources_[i]
                /\ last'.ret \in holds'[last'.thread]
                /\ \A u \in Threads : holds[u] \subseteq holds'[u]]_vars

\* Two threads hold the handle of one slot at the same time: thread 1 got
\* it from an acquire while thread 2 held it.
C18_Witness ==
    /\ last.op = "acquire" /\ last.thread = 1 /\ last.ret # NULL
    /\ last.ret \in holds[1] \cap holds[2]
    /\ Cardinality({i \in Slots(Pool) : resources_[i] = last.ret}) = 1

\* --------------------------------------------------------------------- C19
\* C19 as stated: with a release action configured, over any sequence of
\* acquire and release calls followed by the destruction of the pool, no
\* call passes to the release action a resource that was passed to it
\* before; a resource leaves its slot only in a call that passes it to the
\* release action; a destructor that runs to its end has passed every
\* resource still installed to the release action; and the restore action's
\* resource is installed only into a slot that owns none.
C19_Lifecycle ==
    (params_.release_func /\ last.op \in {"acquire", "release", "idleCount", "destroy"}) =>
        /\ \A i \in Range(SlotsReleaseCalled(last)) :
              ~(last.handed0[i] /\ last.pre.resources[i] # NULL)
        /\ \A i \in Slots(last.pre) :
              (last.pre.resources[i] # NULL
               /\ (i \notin Slots(Pool) \/ resources_[i] # last.pre.resources[i]))
                  => i \in Range(SlotsReleaseCalled(last))
        /\ (last.op = "destroy" /\ ~last.threw) =>
               /\ Pool = EmptyPool
               /\ \A i \in Slots(last.pre) :
                     last.pre.resources[i] # NULL => i \in Range(SlotsReleaseCalled(last))
        /\ \A k \in DOMAIN last.calls :
              (last.calls[k].f = "restore_func" /\ last.calls[k].r # NULL) =>
                  /\ last.pre.resources[last.calls[k].a] = NULL
                  /\ last.mid.resources[last.calls[k].a] = last.calls[k].r

\* --------------------------------------------------------------------- C20
\* C20: when the release-admission predicate admits while the active count
\* is at most one, the acquire invokes no release action, changes no slot
\* after the recovery pass and returns empty; and an acquire whose
\* release-admission predicate is configured and did not refuse returns
\* empty, in every reachable state and whatever the restore policy did.
C20_FloorStarvation ==
    (last.op = "acquire") =>
        /\ (ShrinkAdmitted(last) /\ activeCount(last.mid) <= 1) =>
               /\ Pool = last.mid
               /\ last.ret = NULL
               /\ ~last.threw
               /\ ~Asked(last, "release_func")
        /\ (params_.should_release /\ ~Answered(last, "should_release", 0)) =>
               last.ret = NULL

\* The predicate admitted on a pool of three slots shrunk to one active
\* slot, which is Idle.
C20_Witness ==
    /\ last.op = "acquire" /\ ShrinkAdmitted(last)
    /\ Len(last.mid.resources) = 3 /\ activeCount(last.mid) = 1
    /\ IdleIn(Pool) # {}

====
